---- MODULE Spec2Model ----
(***************************************************************************)
(* Model of the Roblox profile proxy: the express routes of src/routes.ts, *)
(* the DatabaseStorage of src/storage.ts and the tables and zod schemas of *)
(* src/schema.ts.                                                          *)
(*                                                                         *)
(* JSON values are tagged records, so that values of different JavaScript  *)
(* types can be compared: [num |-> 1], [str |-> "a"], [bool |-> TRUE],     *)
(* [null |-> TRUE], [nan |-> TRUE] (the number NaN), [undef |-> TRUE]      *)
(* (undefined), [arr |-> <<...>>] and [obj |-> [field |-> value, ...]].    *)
(* A document (a response body, a table row) is a TLA+ record of values.   *)
(* A string that the code takes apart (a userId handed to parseInt) is a   *)
(* sequence of one-character strings.                                      *)
(***************************************************************************)
EXTENDS Integers, Sequences, FiniteSets, TLC

VARIABLES userCache, searchHistory, now, req, started, ticks, jumps

vars == <<userCache, searchHistory, now, req, started, ticks, jumps>>

(***************************************************************************)
(* Bounds of the model.                                                    *)
(***************************************************************************)
\* number of inbound requests (or direct storage calls) in one behaviour
MaxRequests == 1
\* number of 1 ms steps of the wall clock in one behaviour
MaxTicks == 1
\* number of long idle periods in one behaviour
MaxJumps == 1
\* number of direct calls of the storage in one behaviour of StoreSpec
MaxCalls == 2

\* number of resolve requests in one behaviour of RaceSpec
MaxOverlap == 2

\* the slots of the request handlers: the server of Spec handles one request
\* at a time in the first slot, the server of RaceSpec handles two requests
\* at the same time
SlotOrder == <<"r1", "r2">>

Slots == {SlotOrder[i] : i \in 1..Len(SlotOrder)}

(***************************************************************************)
(* Program constants.                                                      *)
(***************************************************************************)
\* routes.ts:27  "Cache is valid for 1 hour"
CacheTTL == 3600000
\* storage.ts:33 / routes.ts:261  default limit of getRecentSearches
DefaultLimit == 10

(***************************************************************************)
(* JSON values.                                                            *)
(***************************************************************************)
Num(n) == [num |-> n]
Str(s) == [str |-> s]
Bool(b) == [bool |-> b]
Arr(s) == [arr |-> s]
Obj(r) == [obj |-> r]
Null == [null |-> TRUE]
NaN == [nan |-> TRUE]
Undefined == [undef |-> TRUE]

IsNumber(v) == "num" \in DOMAIN v
IsString(v) == "str" \in DOMAIN v
IsBoolean(v) == "bool" \in DOMAIN v
IsNull(v) == "null" \in DOMAIN v
IsUndefined(v) == "undef" \in DOMAIN v
IsArray(v) == "arr" \in DOMAIN v
IsObject(v) == "obj" \in DOMAIN v

\* obj.f in JavaScript: undefined when the property is absent
Get(doc, f) == IF f \in DOMAIN doc THEN doc[f] ELSE Undefined

\* JSON.stringify followed by JSON.parse, as done by res.json and by a jsonb
\* column: NaN becomes null, undefined becomes null inside an array, and a
\* property whose value is undefined is dropped.
RECURSIVE JsonValue(_)
JsonValue(v) ==
  IF "nan" \in DOMAIN v \/ "undef" \in DOMAIN v THEN Null
  ELSE IF "arr" \in DOMAIN v
    THEN Arr([i \in 1..Len(v.arr) |-> JsonValue(v.arr[i])])
  ELSE IF "obj" \in DOMAIN v
    THEN Obj([f \in {g \in DOMAIN v.obj : ~IsUndefined(v.obj[g])} |-> JsonValue(v.obj[f])])
  ELSE v

JsonDoc(doc) == JsonValue(Obj(doc)).obj

(***************************************************************************)
(* Strings that are taken apart.                                           *)
(***************************************************************************)
Digits == <<"0", "1", "2", "3", "4", "5", "6", "7", "8", "9">>

IsDigit(c) == \E i \in 1..10 : Digits[i] = c

DigitVal(c) == (CHOOSE i \in 1..10 : Digits[i] = c) - 1

\* parseInt(s): the number spelled by the longest prefix of digits, NaN when
\* that prefix is empty.
RECURSIVE ParseDigits(_, _)
ParseDigits(s, acc) ==
  IF s = <<>> \/ ~IsDigit(Head(s)) THEN acc
  ELSE ParseDigits(Tail(s), acc * 10 + DigitVal(Head(s)))

parseInt(s) ==
  IF s = <<>> \/ ~IsDigit(Head(s)) THEN NaN ELSE Num(ParseDigits(s, 0))

\* Number.prototype.toString for a natural number
RECURSIVE toString(_)
toString(n) ==
  IF n < 10 THEN <<Digits[n + 1]>> ELSE toString(n \div 10) \o <<Digits[(n % 10) + 1]>>

\* new Date().toISOString() and new Date(text).getTime(): the text keeps the
\* millisecond count.
toISOString(t) == [iso |-> t]
getTime(text) == text.iso

(***************************************************************************)
(* The zod schemas of src/schema.ts.  xxxOk(raw) tells whether parse       *)
(* accepts raw, xxxParse(raw) is what parse returns when it does.          *)
(***************************************************************************)
\* z.string().optional(): absent, undefined or a string
OptionalString(doc, f) == IsUndefined(Get(doc, f)) \/ IsString(Get(doc, f))

OptionalBoolean(doc, f) == IsUndefined(Get(doc, f)) \/ IsBoolean(Get(doc, f))

\* z.array(z.string())
IsStringArray(v) == IsArray(v) /\ \A i \in 1..Len(v.arr) : IsString(v.arr[i])

\* z.object({friends: z.number(), followers: z.number(), following: z.number()})
IsStatsObject(v) ==
  /\ IsObject(v)
  /\ IsNumber(Get(v.obj, "friends"))
  /\ IsNumber(Get(v.obj, "followers"))
  /\ IsNumber(Get(v.obj, "following"))

robloxUserSchemaOk(raw) ==
  /\ IsNumber(Get(raw, "id"))
  /\ IsString(Get(raw, "name"))
  /\ OptionalString(raw, "displayName")
  /\ OptionalString(raw, "description")
  /\ OptionalString(raw, "created")
  /\ OptionalBoolean(raw, "isBanned")
  /\ (OptionalString(raw, "externalAppDisplayName") \/ IsNull(Get(raw, "externalAppDisplayName")))
  /\ OptionalBoolean(raw, "hasVerifiedBadge")
  /\ (IsUndefined(Get(raw, "previousUsernames")) \/ IsStringArray(Get(raw, "previousUsernames")))
  /\ (IsUndefined(Get(raw, "stats")) \/ IsStatsObject(Get(raw, "stats")))

UserSchemaKeys ==
  {"id", "name", "displayName", "description", "created", "isBanned",
   "externalAppDisplayName", "hasVerifiedBadge", "previousUsernames", "stats"}

StatsKeys == {"friends", "followers", "following"}

\* the .default(...) of a key of robloxUserSchema
UserSchemaDefault(f) == IF f = "description" THEN Str("") ELSE Bool(FALSE)

\* unknown keys are stripped, defaults are filled in
robloxUserSchemaParse(raw) ==
  [f \in ({g \in DOMAIN raw \cap UserSchemaKeys : ~IsUndefined(raw[g])}
          \cup {"description", "isBanned", "hasVerifiedBadge"}) |->
     IF IsUndefined(Get(raw, f)) THEN UserSchemaDefault(f)
     ELSE IF f = "stats" THEN Obj([k \in StatsKeys |-> raw[f].obj[k]])
     ELSE raw[f]]

robloxFriendsCountSchemaOk(raw) == IsNumber(Get(raw, "count"))

robloxFriendsCountSchemaParse(raw) == [count |-> raw.count]

robloxUserStatusSchemaOk(raw) == IsString(Get(raw, "status"))

robloxUserStatusSchemaParse(raw) == [status |-> raw.status]

robloxAvatarSchemaOk(raw) ==
  /\ IsArray(Get(raw, "data"))
  /\ \A i \in 1..Len(raw.data.arr) :
       /\ IsObject(raw.data.arr[i])
       /\ IsString(Get(raw.data.arr[i].obj, "imageUrl"))
       /\ (IsUndefined(Get(raw.data.arr[i].obj, "targetId")) \/ IsNumber(Get(raw.data.arr[i].obj, "targetId")))
       /\ OptionalString(raw.data.arr[i].obj, "state")

(***************************************************************************)
(* The tables of src/schema.ts and the DatabaseStorage of src/storage.ts.  *)
(* A table is the sequence of its rows in insertion order.                 *)
(***************************************************************************)
\* a field the caller passed with a value (drizzle skips undefined)
Provided(doc, f) == f \in DOMAIN doc /\ ~IsUndefined(doc[f])

\* user_cache: user_id, user_data and timestamp are NOT NULL
UserCacheNotNull(cache) ==
  /\ Provided(cache, "userId") /\ ~IsNull(cache.userId)
  /\ Provided(cache, "userData") /\ ~IsNull(cache.userData)
  /\ Provided(cache, "timestamp") /\ ~IsNull(cache.timestamp)

\* UserCacheUnique of a user_id column without its constraint
UserCacheUnchecked(tbl, cache) == cache.userId = cache.userId

\* user_cache: user_id is UNIQUE
UserCacheUnique(tbl, cache) == \A i \in 1..Len(tbl) : tbl[i].userId # cache.userId

\* the row that db.insert(userCache).values(cache) adds: serial id,
\* avatar_url NULL and is_terminated false when not provided
UserCacheRow(tbl, cache) ==
  [id |-> Len(tbl) + 1,
   userId |-> cache.userId,
   userData |-> JsonValue(cache.userData),
   avatarUrl |-> IF Provided(cache, "avatarUrl") THEN cache.avatarUrl ELSE Null,
   timestamp |-> cache.timestamp,
   isTerminated |-> IF Provided(cache, "isTerminated") THEN cache.isTerminated ELSE Bool(FALSE)]

\* db.select().from(userCache).where(eq(userCache.userId, userId))
SelectUserCache(tbl, userId) == SelectSeq(tbl, LAMBDA row : row.userId = userId)

\* getUserCache: result[0]
getUserCache(tbl, userId) ==
  IF SelectUserCache(tbl, userId) = <<>> THEN Undefined ELSE SelectUserCache(tbl, userId)[1]

\* SetColumns that also skips the columns provided as null
SetColumnsSkipNull(row, cache) ==
  [f \in DOMAIN row |->
     IF Provided(cache, f) /\ ~IsNull(cache[f])
       THEN (IF f = "userData" THEN JsonValue(cache[f]) ELSE cache[f])
       ELSE row[f]]

\* SetColumns that resets the nullable and defaulted columns not provided
SetColumnsWholesale(row, cache) ==
  [f \in DOMAIN row |->
     IF Provided(cache, f)
       THEN (IF f = "userData" THEN JsonValue(cache[f]) ELSE cache[f])
       ELSE IF f = "avatarUrl" THEN Null
       ELSE IF f = "isTerminated" THEN Bool(FALSE)
       ELSE row[f]]

\* .set(cache) on one row: the provided columns are replaced
SetColumns(row, cache) ==
  [f \in DOMAIN row |->
     IF Provided(cache, f)
       THEN (IF f = "userData" THEN JsonValue(cache[f]) ELSE cache[f])
       ELSE row[f]]

\* .set(cache) throws "No values to set" when no column is provided
HasValuesToSet(cache) == \E f \in DOMAIN cache : ~IsUndefined(cache[f])

\* the table after db.update(userCache).set(cache).where(eq(userId))
UpdateUserCacheTable(tbl, userId, cache) ==
  [i \in 1..Len(tbl) |-> IF tbl[i].userId = userId THEN SetColumns(tbl[i], cache) ELSE tbl[i]]

\* updateUserCache: result[0] of .returning()
updateUserCache(tbl, userId, cache) ==
  getUserCache(UpdateUserCacheTable(tbl, userId, cache), IF Provided(cache, "userId") THEN cache.userId ELSE userId)

\* the table after db.insert(userCache).values(cache)
InsertUserCacheTable(tbl, cache) == Append(tbl, UserCacheRow(tbl, cache))

\* the row that db.insert(searchHistory).values(search) adds
SearchHistoryRow(tbl, search) ==
  [id |-> Len(tbl) + 1,
   query |-> search.query,
   type |-> search.type,
   timestamp |-> search.timestamp,
   success |-> IF Provided(search, "success") THEN search.success ELSE Bool(TRUE)]

\* addSearchHistoryTable that keeps the latest entry only
addSearchHistoryLatest(tbl, search) == <<SearchHistoryRow(tbl, search)>>

\* the table after addSearchHistory
addSearchHistoryTable(tbl, search) == Append(tbl, SearchHistoryRow(tbl, search))

\* addUserCache: update when a row of that userId exists, insert otherwise
addUserCacheTable(tbl, cache) ==
  IF ~IsUndefined(getUserCache(tbl, cache.userId))
    THEN UpdateUserCacheTable(tbl, cache.userId, cache)
    ELSE InsertUserCacheTable(tbl, cache)

\* what addUserCache returns: result[0] of .returning()
addUserCache(tbl, cache) ==
  IF ~IsUndefined(getUserCache(tbl, cache.userId))
    THEN updateUserCache(tbl, cache.userId, cache)
    ELSE UserCacheRow(tbl, cache)

(***************************************************************************)
(* The upstream service.  A reply of axios is either a response with a     *)
(* JSON body, [data |-> body], or a thrown error, [error |-> e]; e has a   *)
(* response only when the service answered with a status outside 2xx.      *)
(***************************************************************************)
HttpError(status) ==
  [error |-> [response |-> [status |-> status], message |-> "Request failed"]]

NetworkError == [error |-> [message |-> "Network Error"]]

\* thrown by schema.parse
ZodError == [message |-> "ZodError"]

\* thrown by a property access on undefined
TypeError == [message |-> "TypeError"]

\* thrown by a call of the database driver
DbError == [message |-> "DbError"]

IsError(reply) == "error" \in DOMAIN reply

\* IsTerminatedSignal that takes any answered error for the signal
IsAnsweredError(e) == "response" \in DOMAIN e

\* error.response && error.response.status === 400
IsTerminatedSignal(e) == "response" \in DOMAIN e /\ e.response.status = 400

UserIds == {Str(<<"9", "9">>), Str(<<"x">>)}

Usernames == {Undefined, Str(""), Str("robloxuser123")}

ProfileReplies ==
  { [data |-> [id |-> Num(99), name |-> Str("alice")]],
    [data |-> [id |-> Num(99), name |-> Str("bob"), isBanned |-> Bool(TRUE), extra |-> Num(1)]],
    [data |-> [name |-> Str("alice")]],
    HttpError(400), HttpError(404), NetworkError }

AvatarReplies ==
  { [data |-> [data |-> Arr(<<Obj([imageUrl |-> Str("img"), state |-> Str("Completed")])>>)]],
    [data |-> [data |-> Arr(<<>>)]],
    NetworkError }

HistoryReplies ==
  { [data |-> [data |-> Arr(<<Obj([name |-> Str("old")])>>)]],
    NetworkError }

CountReplies ==
  { [data |-> [count |-> Num(3)]],
    NetworkError }

\* the friends count may also come without its count field
FriendsReplies ==
  CountReplies \cup { [data |-> [errors |-> Arr(<<>>)]] }

LookupReplies ==
  { [data |-> [data |-> Arr(<<Obj([id |-> Num(456), name |-> Str("robloxuser123")])>>)]],
    [data |-> [data |-> Arr(<<>>)]],
    [data |-> [errors |-> Arr(<<>>)]],
    NetworkError }

StatusReplies ==
  { [data |-> [status |-> Str("hello")]],
    [data |-> [errors |-> Arr(<<>>)]],
    NetworkError }

\* the value of the limit query parameter of GET /api/search-history
LimitParams == {Undefined, Str(<<"1">>), Str(<<"0">>)}

(***************************************************************************)
(* The state of one request handler.                                       *)
(***************************************************************************)
NoResponse == [status |-> 0]

Endpoints == {"profile", "avatar", "history", "friends", "followers", "followings", "lookup", "status"}

SubCalls == {"profile", "avatar", "history", "stats", "lookup", "status", "store"}

\* a handler that is not running: before its first request, after res.json
\* (done), or after an exception left it without a response (hung)
Handler(kind, pc, arg) ==
  [kind |-> kind, pc |-> pc, arg |-> arg,
   validatedData |-> Undefined, previousUsernames |-> Undefined,
   userStats |-> Undefined, cacheData |-> Undefined, body |-> Undefined,
   inCatch |-> FALSE, existing |-> FALSE, error |-> Undefined,
   res |-> NoResponse,
   calls |-> [e \in Endpoints |-> 0],
   outcome |-> [c \in SubCalls |-> "none"],
   writes |-> 0, appended |-> 0]

\* res.status(status).json(body): the handler ends, its locals are dropped
Respond(h, status, body) ==
  [Handler(h.kind, "done", h.arg) EXCEPT
     !.res = [status |-> status, body |-> JsonDoc(body)],
     !.inCatch = h.inCatch, !.calls = h.calls, !.outcome = h.outcome,
     !.writes = h.writes, !.appended = h.appended]

\* an exception that no catch handles: the promise of the handler rejects
\* and no response is sent
Unhandled(h) ==
  [Handler(h.kind, "hung", h.arg) EXCEPT
     !.inCatch = h.inCatch, !.calls = h.calls, !.outcome = h.outcome,
     !.writes = h.writes, !.appended = h.appended]

\* the upstream call named e is issued; the handler counts the calls it issued
Called(h, e) == [h EXCEPT !.calls[e] = @ + 1]

\* the handler records how each of its awaited calls ended ("stats" is the
\* Promise.all of the three counts, "store" is any call of the storage)
Noted(h, subcall, what) == [h EXCEPT !.outcome[subcall] = what]

\* how the profile call ended: it threw the 400 of a terminated account, it
\* threw something else, it answered with or without the required fields
ProfileOutcome(reply) ==
  IF "error" \in DOMAIN reply
    THEN (IF "response" \in DOMAIN reply.error /\ reply.error.response.status = 400
            THEN "terminated" ELSE "failed")
  ELSE IF /\ "id" \in DOMAIN reply.data /\ "num" \in DOMAIN reply.data.id
          /\ "name" \in DOMAIN reply.data /\ "str" \in DOMAIN reply.data.name
    THEN "ok" ELSE "invalid"

\* how a call answering {data: [...]} ended: it threw, it answered with an
\* empty list or a malformed body, or it answered with an item
ListOutcome(reply) ==
  IF "error" \in DOMAIN reply THEN "failed"
  ELSE IF "data" \notin DOMAIN reply.data THEN "malformed"
  ELSE IF reply.data.data.arr = <<>> THEN "empty"
  ELSE "ok"

\* how the Promise.all of the three counts ended: one call threw, all
\* answered but one without its count, or all answered with a count
StatsOutcome(friends, followers, followings) ==
  IF \E reply \in {friends, followers, followings} : "error" \in DOMAIN reply THEN "failed"
  ELSE IF \E reply \in {friends, followers, followings} : "count" \notin DOMAIN reply.data THEN "missing"
  ELSE "ok"

\* how the status call ended
StatusOutcome(reply) ==
  IF "error" \in DOMAIN reply THEN "failed"
  ELSE IF "status" \notin DOMAIN reply.data THEN "invalid"
  ELSE "ok"

Running(h) == h.pc \notin {"idle", "done", "hung"}

\* the next step of the handler reads the clock: new Date() at routes.ts:27,
\* 62, 137, 173 and 200
ReadsClock(h) ==
  h.pc \in {"getUserCache", "fetchAvatar", "fetchArchivedAvatar", "addSearchHistory", "lookup"}

\* the wall clock advances by 1 ms while a handler is running; the time that
\* passes during an await shows at the next read of the clock
Tick ==
  /\ ticks < MaxTicks
  /\ \E r \in Slots : ReadsClock(req[r])
  /\ now' = now + 1
  /\ ticks' = ticks + 1
  /\ UNCHANGED <<userCache, searchHistory, req, started, jumps>>

\* a long period passes while no handler is running: a handler is never in
\* flight for as long as the freshness window
Idle ==
  /\ jumps < MaxJumps
  /\ started < MaxRequests
  /\ \A r \in Slots : ~Running(req[r])
  /\ \E d \in {CacheTTL - 1, CacheTTL} : now' = now + d
  /\ jumps' = jumps + 1
  /\ UNCHANGED <<userCache, searchHistory, req, started, ticks>>

\* the requests arrive one after the other: a new request is handled in the
\* first slot once the request before it has ended
Free(r) ==
  /\ r = SlotOrder[1]
  /\ \A q \in Slots : ~Running(req[q])
  /\ started < MaxRequests

(***************************************************************************)
(* GET /api/users/:userId  (routes.ts:19-158)                              *)
(***************************************************************************)
\* JavaScript truthiness
Truthy(v) ==
  /\ ~IsUndefined(v) /\ ~IsNull(v) /\ "nan" \notin DOMAIN v
  /\ v # Bool(FALSE) /\ v # Num(0) /\ v # Str("")

\* a || b
OrElse(a, b) == IF Truthy(a) THEN a ELSE b

\* IsFresh with the window one millisecond short
IsFreshShort(cachedUser, t) ==
  /\ Truthy(cachedUser)
  /\ t - getTime(cachedUser.timestamp) < CacheTTL - 1

\* the cache check of routes.ts:25-27
IsFresh(cachedUser, t) ==
  /\ Truthy(cachedUser)
  /\ t - getTime(cachedUser.timestamp) < CacheTTL

\* the body served from the cache, routes.ts:28-33
CacheBody(cachedUser) ==
  [source |-> Str("cache"),
   data |-> cachedUser.userData,
   avatarUrl |-> cachedUser.avatarUrl,
   isTerminated |-> cachedUser.isTerminated]

\* ResolveCatch that takes the recovery path for every error
ResolveCatchAny(h, e) ==
  [h EXCEPT !.pc = "fetchUsernameHistory", !.inCatch = TRUE]

\* the catch of routes.ts:74-157 entered with error e
ResolveCatch(h, e) ==
  IF IsTerminatedSignal(e)
    THEN [h EXCEPT !.pc = "fetchUsernameHistory", !.inCatch = TRUE]
    ELSE Respond(h, 500, [error |-> Str("Failed to fetch user data"), details |-> Str(e.message)])

\* an exception thrown at the current statement of the handler
ResolveThrow(h, e) == IF h.inCatch THEN Unhandled(h) ELSE ResolveCatch(h, e)

StartResolve(r) ==
  /\ Free(r)
  /\ \E userId \in UserIds :
       req' = [req EXCEPT ![r] = Handler("resolve", "getUserCache", userId)]
  /\ started' = started + 1
  /\ UNCHANGED <<userCache, searchHistory, now, ticks, jumps>>

\* routes.ts:24-34
CheckCache(r) ==
  /\ req[r].kind = "resolve" /\ req[r].pc = "getUserCache"
  /\ \E dbOk \in BOOLEAN :
       req' = [req EXCEPT ![r] =
         IF ~dbOk THEN ResolveThrow(Noted(@, "store", "failed"), DbError)
         ELSE IF IsFresh(getUserCache(userCache, @.arg), now)
           THEN Respond(@, 200, CacheBody(getUserCache(userCache, @.arg)))
           ELSE [@ EXCEPT !.pc = "fetchProfile"]]
  /\ UNCHANGED <<userCache, searchHistory, now, started, ticks, jumps>>

\* routes.ts:36-41
FetchProfile(r) ==
  /\ req[r].kind = "resolve" /\ req[r].pc = "fetchProfile"
  /\ \E reply \in ProfileReplies :
       req' = [req EXCEPT ![r] =
         IF IsError(reply) THEN ResolveThrow(Noted(Called(@, "profile"), "profile", ProfileOutcome(reply)), reply.error)
         ELSE IF ~robloxUserSchemaOk(reply.data) THEN ResolveThrow(Noted(Called(@, "profile"), "profile", ProfileOutcome(reply)), ZodError)
         ELSE [Noted(Called(@, "profile"), "profile", ProfileOutcome(reply)) EXCEPT
                 !.pc = "fetchAvatar",
                 !.validatedData = robloxUserSchemaParse(reply.data)]]
  /\ UNCHANGED <<userCache, searchHistory, now, started, ticks, jumps>>

\* routes.ts:44-55
AvatarUrl(reply) ==
  IF IsError(reply) \/ ~robloxAvatarSchemaOk(reply.data) THEN Null
  ELSE IF Len(reply.data.data.arr) > 0 THEN reply.data.data.arr[1].obj.imageUrl
  ELSE Null

\* CacheData that leaves the terminated flag at the column's default
CacheDataFlagDefault(userId, validatedData, avatarUrl, t) ==
  [userId |-> userId,
   userData |-> Obj(validatedData),
   avatarUrl |-> avatarUrl,
   timestamp |-> toISOString(t),
   isTerminated |-> Bool(FALSE)]

\* routes.ts:58-64
CacheData(userId, validatedData, avatarUrl, t) ==
  [userId |-> userId,
   userData |-> Obj(validatedData),
   avatarUrl |-> avatarUrl,
   timestamp |-> toISOString(t),
   isTerminated |-> OrElse(validatedData.isBanned, Bool(FALSE))]

\* routes.ts:68-73
ApiBody(validatedData, avatarUrl) ==
  [source |-> Str("api"),
   data |-> Obj(validatedData),
   avatarUrl |-> avatarUrl,
   isTerminated |-> OrElse(validatedData.isBanned, Bool(FALSE))]

\* FetchAvatar without the try/catch around the avatar call
FetchAvatarUncaught(r) ==
  /\ req[r].kind = "resolve" /\ req[r].pc = "fetchAvatar"
  /\ \E reply \in AvatarReplies :
       req' = [req EXCEPT ![r] =
         IF IsError(reply)
           THEN ResolveThrow(Noted(Called(@, "avatar"), "avatar", ListOutcome(reply)), reply.error)
           ELSE [Noted(Called(@, "avatar"), "avatar", ListOutcome(reply)) EXCEPT
                   !.pc = "addUserCache",
                   !.cacheData = CacheData(req[r].arg, req[r].validatedData, AvatarUrl(reply), now),
                   !.body = ApiBody(req[r].validatedData, AvatarUrl(reply))]]
  /\ UNCHANGED <<userCache, searchHistory, now, started, ticks, jumps>>

\* FetchAvatar that issues the avatar call a second time when the first throws
FetchAvatarRetry(r) ==
  /\ req[r].kind = "resolve" /\ req[r].pc = "fetchAvatar"
  /\ \E reply \in AvatarReplies, again \in AvatarReplies :
       req' = [req EXCEPT ![r] =
         IF IsError(reply)
           THEN [Noted(Called(Called(@, "avatar"), "avatar"), "avatar", ListOutcome(again)) EXCEPT
                   !.pc = "addUserCache",
                   !.cacheData = CacheData(req[r].arg, req[r].validatedData, AvatarUrl(again), now),
                   !.body = ApiBody(req[r].validatedData, AvatarUrl(again))]
           ELSE [Noted(Called(@, "avatar"), "avatar", ListOutcome(reply)) EXCEPT
                   !.pc = "addUserCache",
                   !.cacheData = CacheData(req[r].arg, req[r].validatedData, AvatarUrl(reply), now),
                   !.body = ApiBody(req[r].validatedData, AvatarUrl(reply))]]
  /\ UNCHANGED <<userCache, searchHistory, now, started, ticks, jumps>>

\* routes.ts:43-64
FetchAvatar(r) ==
  /\ req[r].kind = "resolve" /\ req[r].pc = "fetchAvatar"
  /\ \E reply \in AvatarReplies :
       req' = [req EXCEPT ![r] =
         [Noted(Called(@, "avatar"), "avatar", ListOutcome(reply)) EXCEPT
            !.pc = "addUserCache",
            !.cacheData = CacheData(req[r].arg, req[r].validatedData, AvatarUrl(reply), now),
            !.body = ApiBody(req[r].validatedData, AvatarUrl(reply))]]
  /\ UNCHANGED <<userCache, searchHistory, now, started, ticks, jumps>>

\* routes.ts:79-87
PreviousUsernames(reply) ==
  IF IsError(reply) \/ ~IsArray(Get(reply.data, "data")) THEN Arr(<<>>)
  ELSE Arr([i \in 1..Len(reply.data.data.arr) |-> Get(reply.data.data.arr[i].obj, "name")])

FetchUsernameHistory(r) ==
  /\ req[r].kind = "resolve" /\ req[r].pc = "fetchUsernameHistory"
  /\ \E reply \in HistoryReplies :
       req' = [req EXCEPT ![r] =
         [Noted(Called(@, "history"), "history", ListOutcome(reply)) EXCEPT
            !.pc = "fetchTerminatedStats",
            !.previousUsernames = PreviousUsernames(reply)]]
  /\ UNCHANGED <<userCache, searchHistory, now, started, ticks, jumps>>

\* UserStats that falls back to 0 for each count on its own
UserStatsSettled(friends, followers, followings) ==
  Obj([friends |-> IF IsError(friends) THEN Num(0) ELSE Get(friends.data, "count"),
       followers |-> IF IsError(followers) THEN Num(0) ELSE Get(followers.data, "count"),
       following |-> IF IsError(followings) THEN Num(0) ELSE Get(followings.data, "count")])

\* routes.ts:90-110
UserStats(friends, followers, followings) ==
  IF IsError(friends) \/ IsError(followers) \/ IsError(followings)
    THEN Obj([friends |-> Num(0), followers |-> Num(0), following |-> Num(0)])
    ELSE Obj([friends |-> Get(friends.data, "count"),
              followers |-> Get(followers.data, "count"),
              following |-> Get(followings.data, "count")])

FetchTerminatedStats(r) ==
  /\ req[r].kind = "resolve" /\ req[r].pc = "fetchTerminatedStats"
  /\ \E friends \in FriendsReplies, followers \in CountReplies, followings \in CountReplies :
       req' = [req EXCEPT ![r] =
         [Noted(Called(Called(Called(@, "friends"), "followers"), "followings"), "stats", StatsOutcome(friends, followers, followings)) EXCEPT
            !.pc = "fetchArchivedAvatar",
            !.userStats = UserStats(friends, followers, followings)]]
  /\ UNCHANGED <<userCache, searchHistory, now, started, ticks, jumps>>

\* routes.ts:113-123
ArchivedAvatarUrl(reply) ==
  IF IsError(reply) THEN Null
  ELSE IF IsArray(Get(reply.data, "data")) /\ Len(reply.data.data.arr) > 0
    THEN Get(reply.data.data.arr[1].obj, "imageUrl")
  ELSE Null

\* routes.ts:125-139
TerminatedCacheData(userId, previousUsernames, userStats, archivedAvatarUrl, t) ==
  [userId |-> userId,
   userData |-> Obj([id |-> parseInt(userId.str),
                     name |-> Str("Terminated Account"),
                     displayName |-> Str("Terminated Account"),
                     description |-> Str("This account has been terminated for violating Roblox Terms of Service."),
                     isBanned |-> Bool(TRUE),
                     previousUsernames |-> previousUsernames,
                     stats |-> userStats]),
   avatarUrl |-> archivedAvatarUrl,
   timestamp |-> toISOString(t),
   isTerminated |-> Bool(TRUE)]

\* routes.ts:143-150
TerminatedBody(cacheData, previousUsernames, userStats, archivedAvatarUrl) ==
  [source |-> Str("api"),
   data |-> cacheData.userData,
   avatarUrl |-> archivedAvatarUrl,
   isTerminated |-> Bool(TRUE),
   stats |-> userStats,
   previousUsernames |-> previousUsernames]

FetchArchivedAvatar(r) ==
  /\ req[r].kind = "resolve" /\ req[r].pc = "fetchArchivedAvatar"
  /\ \E reply \in AvatarReplies :
       req' = [req EXCEPT ![r] =
         [Noted(Called(@, "avatar"), "avatar", ListOutcome(reply)) EXCEPT
            !.pc = "addUserCache",
            !.cacheData = TerminatedCacheData(req[r].arg, req[r].previousUsernames, req[r].userStats, ArchivedAvatarUrl(reply), now),
            !.body = TerminatedBody(TerminatedCacheData(req[r].arg, req[r].previousUsernames, req[r].userStats, ArchivedAvatarUrl(reply), now),
                                    req[r].previousUsernames, req[r].userStats, ArchivedAvatarUrl(reply))]]
  /\ UNCHANGED <<userCache, searchHistory, now, started, ticks, jumps>>

\* storage.ts:52  the select of addUserCache (routes.ts:66 and routes.ts:141)
AddUserCacheSelect(r) ==
  /\ req[r].kind = "resolve" /\ req[r].pc = "addUserCache"
  /\ \E dbOk \in BOOLEAN :
       req' = [req EXCEPT ![r] =
         IF ~dbOk THEN ResolveThrow(Noted(@, "store", "failed"), DbError)
         ELSE [@ EXCEPT !.pc = "addUserCacheWrite",
                        !.existing = Truthy(getUserCache(userCache, req[r].cacheData.userId))]]
  /\ UNCHANGED <<userCache, searchHistory, now, started, ticks, jumps>>

\* storage.ts:54-63  the update or the insert of addUserCache, then the
\* response of routes.ts:68-73 or routes.ts:143-150.  The insert of a userId
\* that another handler inserted since the select violates the UNIQUE
\* constraint of user_id and throws ("conflict").
AddUserCacheWrite(r) ==
  /\ req[r].kind = "resolve" /\ req[r].pc = "addUserCacheWrite"
  /\ \E dbOk \in BOOLEAN :
       IF ~dbOk \/ (~req[r].existing /\ ~UserCacheUnique(userCache, req[r].cacheData))
         THEN /\ req' = [req EXCEPT ![r] =
                   ResolveThrow(Noted(@, "store", IF dbOk THEN "conflict" ELSE "failed"), DbError)]
              /\ UNCHANGED userCache
         ELSE /\ userCache' =
                   IF req[r].existing
                     THEN UpdateUserCacheTable(userCache, req[r].cacheData.userId, req[r].cacheData)
                     ELSE InsertUserCacheTable(userCache, req[r].cacheData)
              /\ req' = [req EXCEPT ![r] = Respond([@ EXCEPT !.writes = @ + 1], 200, @.body)]
  /\ UNCHANGED <<searchHistory, now, started, ticks, jumps>>

\* The database outlives the server.  When the server starts, user_cache is
\* empty or holds the row that an earlier resolve of the first userId wrote
\* at time 0.
InitialCaches ==
  { <<>>,
    InsertUserCacheTable(<<>>,
      CacheData(Str(<<"9", "9">>),
                robloxUserSchemaParse([id |-> Num(99), name |-> Str("alice")]),
                Str("img"), 0)) }

Init ==
  /\ userCache \in InitialCaches
  /\ searchHistory = <<>>
  /\ now = 0
  /\ req = [r \in Slots |-> Handler("none", "idle", Undefined)]
  /\ started = 0
  /\ ticks = 0
  /\ jumps = 0

(***************************************************************************)
(* POST /api/users/by-username  (routes.ts:161-209)                        *)
(***************************************************************************)
\* routes.ts:170-175 and routes.ts:197-202
SearchEntry(username, t, success) ==
  [query |-> username, type |-> Str("username"),
   timestamp |-> toISOString(t), success |-> Bool(success)]

\* UsernameMissing that only rejects an absent username
UsernameAbsent(username) == IsUndefined(username)

\* routes.ts:164  !username
UsernameMissing(username) == ~Truthy(username)

\* routes.ts:162-166, and the call of routes.ts:170 with its timestamp
StartByUsername(r) ==
  /\ Free(r)
  /\ \E username \in Usernames :
       req' = [req EXCEPT ![r] =
         IF UsernameMissing(username)
           THEN Respond(Handler("byUsername", "idle", username), 400, [error |-> Str("Username is required")])
           ELSE [Handler("byUsername", "addSearchHistory", username) EXCEPT
                   !.cacheData = SearchEntry(username, now, TRUE)]]
  /\ started' = started + 1
  /\ UNCHANGED <<userCache, searchHistory, now, ticks, jumps>>

\* the catch of routes.ts:195-202 entered with error e: the failed search
\* is built and its insert is issued
ByUsernameCatch(h, e, t) ==
  [h EXCEPT !.pc = "addFailedSearch", !.inCatch = TRUE, !.error = e,
            !.cacheData = SearchEntry(h.arg, t, FALSE)]

\* routes.ts:170-175, the insert of storage.ts:24-31
AddSearchHistory(r) ==
  /\ req[r].kind = "byUsername" /\ req[r].pc = "addSearchHistory"
  /\ \E dbOk \in BOOLEAN :
       IF dbOk
         THEN /\ searchHistory' = addSearchHistoryTable(searchHistory, req[r].cacheData)
              /\ req' = [req EXCEPT ![r] = [@ EXCEPT !.pc = "lookup", !.appended = @ + 1]]
         ELSE /\ req' = [req EXCEPT ![r] = ByUsernameCatch(Noted(@, "store", "failed"), DbError, now)]
              /\ UNCHANGED searchHistory
  /\ UNCHANGED <<userCache, now, started, ticks, jumps>>

\* Lookup that also stores the user it found in user_cache
LookupAndCache(r) ==
  /\ req[r].kind = "byUsername" /\ req[r].pc = "lookup"
  /\ \E reply \in LookupReplies :
       /\ req' = [req EXCEPT ![r] =
            IF IsError(reply) THEN ByUsernameCatch(Noted(Called(@, "lookup"), "lookup", ListOutcome(reply)), reply.error, now)
            ELSE IF ~IsArray(Get(reply.data, "data")) THEN ByUsernameCatch(Noted(Called(@, "lookup"), "lookup", ListOutcome(reply)), TypeError, now)
            ELSE IF Len(reply.data.data.arr) = 0
              THEN Respond(Noted(Called(@, "lookup"), "lookup", ListOutcome(reply)), 404, [error |-> Str("User not found")])
            ELSE IF ~IsNumber(Get(reply.data.data.arr[1].obj, "id"))
              THEN ByUsernameCatch(Noted(Called(@, "lookup"), "lookup", ListOutcome(reply)), TypeError, now)
            ELSE Respond(Noted(Called(@, "lookup"), "lookup", ListOutcome(reply)), 200,
                         [userId |-> Str(toString(reply.data.data.arr[1].obj.id.num))])]
       /\ userCache' =
            IF /\ ~IsError(reply) /\ IsArray(Get(reply.data, "data"))
               /\ Len(reply.data.data.arr) > 0
               /\ IsNumber(Get(reply.data.data.arr[1].obj, "id"))
               /\ ~Truthy(getUserCache(userCache, Str(toString(reply.data.data.arr[1].obj.id.num))))
              THEN InsertUserCacheTable(userCache,
                     [userId |-> Str(toString(reply.data.data.arr[1].obj.id.num)),
                      userData |-> Obj([id |-> reply.data.data.arr[1].obj.id, name |-> req[r].arg]),
                      avatarUrl |-> Null,
                      timestamp |-> toISOString(now),
                      isTerminated |-> Bool(FALSE)])
              ELSE userCache
  /\ UNCHANGED <<searchHistory, now, started, ticks, jumps>>

\* routes.ts:178-194
Lookup(r) ==
  /\ req[r].kind = "byUsername" /\ req[r].pc = "lookup"
  /\ \E reply \in LookupReplies :
       req' = [req EXCEPT ![r] =
         IF IsError(reply) THEN ByUsernameCatch(Noted(Called(@, "lookup"), "lookup", ListOutcome(reply)), reply.error, now)
         ELSE IF ~IsArray(Get(reply.data, "data")) THEN ByUsernameCatch(Noted(Called(@, "lookup"), "lookup", ListOutcome(reply)), TypeError, now)
         ELSE IF Len(reply.data.data.arr) = 0
           THEN Respond(Noted(Called(@, "lookup"), "lookup", ListOutcome(reply)), 404, [error |-> Str("User not found")])
         ELSE IF ~IsNumber(Get(reply.data.data.arr[1].obj, "id"))
           THEN ByUsernameCatch(Noted(Called(@, "lookup"), "lookup", ListOutcome(reply)), TypeError, now)
         ELSE Respond(Noted(Called(@, "lookup"), "lookup", ListOutcome(reply)), 200,
                      [userId |-> Str(toString(reply.data.data.arr[1].obj.id.num))])]
  /\ UNCHANGED <<userCache, searchHistory, now, started, ticks, jumps>>

\* routes.ts:197-207
AddFailedSearch(r) ==
  /\ req[r].kind = "byUsername" /\ req[r].pc = "addFailedSearch"
  /\ \E dbOk \in BOOLEAN :
       IF dbOk
         THEN /\ searchHistory' = addSearchHistoryTable(searchHistory, req[r].cacheData)
              /\ req' = [req EXCEPT ![r] =
                   Respond([@ EXCEPT !.appended = @ + 1], 500,
                           [error |-> Str("Failed to fetch user ID"), details |-> Str(@.error.message)])]
         ELSE /\ req' = [req EXCEPT ![r] = Unhandled(Noted(@, "store", "failed"))]
              /\ UNCHANGED searchHistory
  /\ UNCHANGED <<userCache, now, started, ticks, jumps>>

(***************************************************************************)
(* GET /api/users/:userId/status  (routes.ts:212-226)                      *)
(***************************************************************************)
StartStatus(r) ==
  /\ Free(r)
  /\ \E userId \in UserIds :
       req' = [req EXCEPT ![r] = Handler("status", "fetchStatus", userId)]
  /\ started' = started + 1
  /\ UNCHANGED <<userCache, searchHistory, now, ticks, jumps>>

FetchStatus(r) ==
  /\ req[r].kind = "status" /\ req[r].pc = "fetchStatus"
  /\ \E reply \in StatusReplies :
       req' = [req EXCEPT ![r] =
         IF IsError(reply)
           THEN Respond(Noted(Called(@, "status"), "status", StatusOutcome(reply)), 500,
                        [error |-> Str("Failed to fetch user status"), details |-> Str(reply.error.message)])
         ELSE IF ~robloxUserStatusSchemaOk(reply.data)
           THEN Respond(Noted(Called(@, "status"), "status", StatusOutcome(reply)), 500,
                        [error |-> Str("Failed to fetch user status"), details |-> Str(ZodError.message)])
         ELSE Respond(Noted(Called(@, "status"), "status", StatusOutcome(reply)), 200, robloxUserStatusSchemaParse(reply.data))]
  /\ UNCHANGED <<userCache, searchHistory, now, started, ticks, jumps>>

(***************************************************************************)
(* GET /api/users/:userId/stats  (routes.ts:229-256)                       *)
(***************************************************************************)
StartStats(r) ==
  /\ Free(r)
  /\ \E userId \in UserIds :
       req' = [req EXCEPT ![r] = Handler("stats", "fetchCounts", userId)]
  /\ started' = started + 1
  /\ UNCHANGED <<userCache, searchHistory, now, ticks, jumps>>

\* StatsBody that degrades each count on its own
StatsBodyPerCount(friends, followers, followings) ==
  [friends |-> IF IsError(friends) \/ ~robloxFriendsCountSchemaOk(friends.data)
                 THEN Str("N/A") ELSE friends.data.count,
   followers |-> IF IsError(followers) \/ ~robloxFriendsCountSchemaOk(followers.data)
                   THEN Str("N/A") ELSE followers.data.count,
   following |-> IF IsError(followings) \/ ~robloxFriendsCountSchemaOk(followings.data)
                   THEN Str("N/A") ELSE followings.data.count]

\* routes.ts:234-254
StatsBody(friends, followers, followings) ==
  IF \/ IsError(friends) \/ IsError(followers) \/ IsError(followings)
     \/ ~robloxFriendsCountSchemaOk(friends.data)
     \/ ~robloxFriendsCountSchemaOk(followers.data)
     \/ ~robloxFriendsCountSchemaOk(followings.data)
    THEN [friends |-> Str("N/A"), followers |-> Str("N/A"), following |-> Str("N/A")]
    ELSE [friends |-> robloxFriendsCountSchemaParse(friends.data).count,
          followers |-> robloxFriendsCountSchemaParse(followers.data).count,
          following |-> robloxFriendsCountSchemaParse(followings.data).count]

FetchCounts(r) ==
  /\ req[r].kind = "stats" /\ req[r].pc = "fetchCounts"
  /\ \E friends \in FriendsReplies, followers \in CountReplies, followings \in CountReplies :
       req' = [req EXCEPT ![r] =
         Respond(Noted(Called(Called(Called(@, "friends"), "followers"), "followings"), "stats", StatsOutcome(friends, followers, followings)),
                 200, StatsBody(friends, followers, followings))]
  /\ UNCHANGED <<userCache, searchHistory, now, started, ticks, jumps>>

(***************************************************************************)
(* GET /api/search-history  (routes.ts:259-271), getRecentSearches         *)
(* (storage.ts:33-39)                                                      *)
(***************************************************************************)
\* .orderBy(desc(searchHistory.timestamp)): the orders of the rows S of tbl
\* by decreasing timestamp; rows of equal timestamp come in any order
RECURSIVE OrderByDesc(_, _)
OrderByDesc(tbl, S) ==
  IF S = {} THEN {<<>>}
  ELSE UNION { { <<tbl[i]>> \o rest : rest \in OrderByDesc(tbl, S \ {i}) } :
               i \in {j \in S : \A k \in S : getTime(tbl[j].timestamp) >= getTime(tbl[k].timestamp)} }

\* LimitRows that returns one row more
LimitRowsInclusive(rows, n) == SubSeq(rows, 1, IF n + 1 < Len(rows) THEN n + 1 ELSE Len(rows))

\* .limit(n)
LimitRows(rows, n) == SubSeq(rows, 1, IF n < Len(rows) THEN n ELSE Len(rows))

\* the results getRecentSearches(limit) may return; limit defaults to 10
getRecentSearches(tbl, limit) ==
  { LimitRows(rows, IF IsUndefined(limit) THEN DefaultLimit ELSE limit.num) :
      rows \in OrderByDesc(tbl, 1..Len(tbl)) }

\* routes.ts:261
LimitOf(param) ==
  IF IsUndefined(param) \/ param.str = <<>> THEN Num(DefaultLimit) ELSE parseInt(param.str)

StartSearchHistory(r) ==
  /\ Free(r)
  /\ \E param \in LimitParams :
       req' = [req EXCEPT ![r] = Handler("searchHistory", "getRecentSearches", param)]
  /\ started' = started + 1
  /\ UNCHANGED <<userCache, searchHistory, now, ticks, jumps>>

\* routes.ts:262-270
GetRecentSearches(r) ==
  /\ req[r].kind = "searchHistory" /\ req[r].pc = "getRecentSearches"
  /\ \E dbOk \in BOOLEAN :
       IF dbOk
         THEN \E searches \in getRecentSearches(searchHistory, LimitOf(req[r].arg)) :
                req' = [req EXCEPT ![r] = Respond(@, 200, [rows |-> Arr(searches)])]
         ELSE req' = [req EXCEPT ![r] =
                Respond(Noted(@, "store", "failed"), 500,
                        [error |-> Str("Failed to fetch search history"), details |-> Str(DbError.message)])]
  /\ UNCHANGED <<userCache, searchHistory, now, started, ticks, jumps>>

(***************************************************************************)
(* The server: each handler runs from await to await, the requests arrive  *)
(* one after the other.                                                    *)
(***************************************************************************)
Next ==
  \/ Tick
  \/ Idle
  \/ \E r \in Slots :
       \/ StartResolve(r)
       \/ CheckCache(r)
       \/ FetchProfile(r)
       \/ FetchAvatar(r)
       \/ FetchUsernameHistory(r)
       \/ FetchTerminatedStats(r)
       \/ FetchArchivedAvatar(r)
       \/ AddUserCacheSelect(r)
       \/ AddUserCacheWrite(r)
       \/ StartByUsername(r)
       \/ AddSearchHistory(r)
       \/ Lookup(r)
       \/ AddFailedSearch(r)
       \/ StartStatus(r)
       \/ FetchStatus(r)
       \/ StartStats(r)
       \/ FetchCounts(r)
       \/ StartSearchHistory(r)
       \/ GetRecentSearches(r)

Spec == Init /\ [][Next]_vars

\* a step of a handler that is running: the continuation of an await
HandlerStep(r) ==
  \/ CheckCache(r)
  \/ FetchProfile(r)
  \/ FetchAvatar(r)
  \/ FetchUsernameHistory(r)
  \/ FetchTerminatedStats(r)
  \/ FetchArchivedAvatar(r)
  \/ AddUserCacheSelect(r)
  \/ AddUserCacheWrite(r)
  \/ AddSearchHistory(r)
  \/ Lookup(r)
  \/ AddFailedSearch(r)
  \/ FetchStatus(r)
  \/ FetchCounts(r)
  \/ GetRecentSearches(r)

\* Every awaited call settles (the upstream and the database answer or time
\* out) and the event loop then runs the continuation: a handler that can
\* take a step eventually takes one.  Requests need not arrive and time need
\* not be observed.
LiveSpec == Init /\ [][Next]_vars /\ WF_vars(\E r \in Slots : HandlerStep(r))

(***************************************************************************)
(* The storage called directly (the exported storage of storage.ts:77):    *)
(* one caller awaits each call before the next.  The call and what it      *)
(* returned are kept in the first slot.                                    *)
(***************************************************************************)
Caller == SlotOrder[1]

\* the userData documents a caller stores
UserDataArgs ==
  { Obj([id |-> Num(99), name |-> Str("carol"), isBanned |-> Bool(FALSE)]),
    Obj([id |-> Num(7), name |-> Str("dave"), isBanned |-> Bool(TRUE)]) }

\* InsertUserCache: userId, userData and timestamp are required, avatarUrl
\* and isTerminated are optional
InsertUserCacheArgs ==
  { [f \in {"userId", "userData", "timestamp"} \cup opt |->
       IF f = "userId" THEN userId
       ELSE IF f = "userData" THEN userData
       ELSE IF f = "timestamp" THEN toISOString(1)
       ELSE IF f = "avatarUrl" THEN avatarUrl
       ELSE Bool(TRUE)] :
      userId \in UserIds, userData \in UserDataArgs,
      avatarUrl \in {Null, Str("new")}, opt \in SUBSET {"avatarUrl", "isTerminated"} }

\* Partial<InsertUserCache>: any of the columns, possibly none
PartialUserCacheArgs ==
  { [f \in fields |->
       IF f = "userId" THEN userId
       ELSE IF f = "userData" THEN userData
       ELSE IF f = "timestamp" THEN toISOString(1)
       ELSE IF f = "avatarUrl" THEN Str("new")
       ELSE Bool(TRUE)] :
      userId \in UserIds, userData \in UserDataArgs,
      fields \in SUBSET {"userId", "userData", "timestamp", "avatarUrl", "isTerminated"} }

\* InsertSearchHistory: success is optional
InsertSearchHistoryArgs ==
  { [f \in {"query", "type", "timestamp"} \cup opt |->
       IF f = "query" THEN Str("robloxuser123")
       ELSE IF f = "type" THEN Str("username")
       ELSE IF f = "timestamp" THEN toISOString(t)
       ELSE Bool(FALSE)] :
      t \in {0, 1, 2}, opt \in SUBSET {"success"} }

LimitArgs == {Undefined, Num(0), Num(1), Num(2)}

\* the call and its result
Returned(method, args, result) ==
  [Handler(method, "done", args) EXCEPT !.res = [returned |-> result]]

Thrown(method, args, e) ==
  [Handler(method, "done", args) EXCEPT !.res = [thrown |-> e.message]]

\* storage.ts:50-64
CallAddUserCache ==
  /\ started < MaxCalls
  /\ \E cache \in InsertUserCacheArgs :
       /\ userCache' = addUserCacheTable(userCache, cache)
       /\ req' = [req EXCEPT ![Caller] =
            Returned("addUserCache", [cache |-> cache], addUserCache(userCache, cache))]
  /\ started' = started + 1
  /\ UNCHANGED <<searchHistory, now, ticks, jumps>>

\* storage.ts:66-74
CallUpdateUserCache ==
  /\ started < MaxCalls
  /\ \E userId \in UserIds, cache \in PartialUserCacheArgs :
       /\ Provided(cache, "userId") => cache.userId = userId
       /\ IF HasValuesToSet(cache)
            THEN /\ userCache' = UpdateUserCacheTable(userCache, userId, cache)
                 /\ req' = [req EXCEPT ![Caller] =
                      Returned("updateUserCache", [userId |-> userId, cache |-> cache],
                               updateUserCache(userCache, userId, cache))]
            ELSE /\ userCache' = userCache
                 /\ req' = [req EXCEPT ![Caller] =
                      Thrown("updateUserCache", [userId |-> userId, cache |-> cache], DbError)]
  /\ started' = started + 1
  /\ UNCHANGED <<searchHistory, now, ticks, jumps>>

\* storage.ts:41-48
CallGetUserCache ==
  /\ started < MaxCalls
  /\ \E userId \in UserIds :
       req' = [req EXCEPT ![Caller] =
         Returned("getUserCache", [userId |-> userId], getUserCache(userCache, userId))]
  /\ started' = started + 1
  /\ UNCHANGED <<userCache, searchHistory, now, ticks, jumps>>

\* storage.ts:24-31
CallAddSearchHistory ==
  /\ started < MaxCalls
  /\ \E search \in InsertSearchHistoryArgs :
       /\ searchHistory' = addSearchHistoryTable(searchHistory, search)
       /\ req' = [req EXCEPT ![Caller] =
            Returned("addSearchHistory", [search |-> search], SearchHistoryRow(searchHistory, search))]
  /\ started' = started + 1
  /\ UNCHANGED <<userCache, now, ticks, jumps>>

\* storage.ts:33-39
CallGetRecentSearches ==
  /\ started < MaxCalls
  /\ \E limit \in LimitArgs :
       \E searches \in getRecentSearches(searchHistory, limit) :
         req' = [req EXCEPT ![Caller] =
           Returned("getRecentSearches", [limit |-> limit], Arr(searches))]
  /\ started' = started + 1
  /\ UNCHANGED <<userCache, searchHistory, now, ticks, jumps>>

StoreNext ==
  \/ CallAddUserCache
  \/ CallUpdateUserCache
  \/ CallGetUserCache
  \/ CallAddSearchHistory
  \/ CallGetRecentSearches

StoreSpec == Init /\ [][StoreNext]_vars

(***************************************************************************)
(* The search history called directly, on a log that earlier runs of the   *)
(* server may have filled.                                                 *)
(***************************************************************************)
\* the timestamps of the entries already in the log, in insertion order
PastTimestamps == <<5, 2, 10, 1, 8, 0, 7, 3, 9, 4, 6>>

\* search_history is empty or holds eleven entries
InitialLogs ==
  { <<>>,
    [i \in 1..Len(PastTimestamps) |->
       [id |-> i,
        query |-> Str("robloxuser123"),
        type |-> Str("username"),
        timestamp |-> toISOString(PastTimestamps[i]),
        success |-> Bool(i % 2 = 0)]] }

HistoryInit ==
  /\ userCache = <<>>
  /\ searchHistory \in InitialLogs
  /\ now = 0
  /\ req = [r \in Slots |-> Handler("none", "idle", Undefined)]
  /\ started = 0
  /\ ticks = 0
  /\ jumps = 0

HistoryNext ==
  \/ CallAddSearchHistory
  \/ CallGetRecentSearches

HistorySpec == HistoryInit /\ [][HistoryNext]_vars

(***************************************************************************)
(* The server handling resolve requests that overlap: a second request     *)
(* arrives while the first is at one of its awaits, and the handlers'      *)
(* steps interleave.                                                       *)
(***************************************************************************)
\* the server has just started, or has been up for the freshness window
RaceInit ==
  /\ userCache \in InitialCaches
  /\ searchHistory = <<>>
  /\ now \in {0, CacheTTL}
  /\ req = [r \in Slots |-> Handler("none", "idle", Undefined)]
  /\ started = 0
  /\ ticks = 0
  /\ jumps = 0

\* a resolve request arrives and is handled in the first slot that is not
\* running one; the requests of one behaviour resolve the same userId
RaceStart(r) ==
  /\ ~Running(req[r])
  /\ \A i \in 1..Len(SlotOrder) :
       SlotOrder[i] = r => \A j \in 1..(i - 1) : Running(req[SlotOrder[j]])
  /\ started < MaxOverlap
  /\ \E userId \in UserIds :
       /\ \A q \in Slots : req[q].kind = "resolve" => req[q].arg = userId
       /\ req' = [req EXCEPT ![r] = Handler("resolve", "getUserCache", userId)]
  /\ started' = started + 1
  /\ UNCHANGED <<userCache, searchHistory, now, ticks, jumps>>

RaceNext ==
  \E r \in Slots :
    \/ RaceStart(r)
    \/ CheckCache(r)
    \/ FetchProfile(r)
    \/ FetchAvatar(r)
    \/ FetchUsernameHistory(r)
    \/ FetchTerminatedStats(r)
    \/ FetchArchivedAvatar(r)
    \/ AddUserCacheSelect(r)
    \/ AddUserCacheWrite(r)

RaceSpec == RaceInit /\ [][RaceNext]_vars

(***************************************************************************)
(* Properties of GET /api/users/:userId.                                   *)
(***************************************************************************)
\* handler r is a resolve that ended with 200 and the given source
Resolved(h, source) ==
  /\ h.kind = "resolve" /\ h.pc = "done"
  /\ h.res.status = 200
  /\ h.res.body.source = Str(source)

\* C1: when the user_cache row of the requested userId exists and is younger
\* than one hour at the cache check, and the lookup does not throw, resolve
\* answers 200 with source "cache" and exactly the stored userData, avatarUrl
\* and isTerminated, has issued no upstream call and writes nothing.
C1_FreshRecordServedFromCache ==
  [][\A r \in Slots :
       ( /\ req[r].kind = "resolve" /\ req[r].pc = "getUserCache"
         /\ req'[r] # req[r]
         /\ req'[r].outcome.store # "failed"
         /\ \E i \in 1..Len(userCache) :
              /\ userCache[i].userId = req[r].arg
              /\ now - userCache[i].timestamp.iso < 3600000 )
       => \E i \in 1..Len(userCache) :
            /\ userCache[i].userId = req[r].arg
            /\ req'[r].pc = "done"
            /\ req'[r].res =
                 [status |-> 200,
                  body |-> [source |-> Str("cache"),
                            data |-> userCache[i].userData,
                            avatarUrl |-> userCache[i].avatarUrl,
                            isTerminated |-> userCache[i].isTerminated]]
            /\ \A e \in Endpoints : req'[r].calls[e] = 0
            /\ req'[r].writes = 0
            /\ userCache' = userCache]_vars

\* a resolve answered from a row that was 3599999 ms old, or younger
C1_Witness ==
  \E r \in Slots : Resolved(req[r], "cache") /\ now >= 3599999

\* C2: when the row of the requested userId is absent or at least one hour
\* old, resolve goes on to the profile fetch and issues it exactly once; when
\* it then answers 200 from the api with a validated profile, a resolve of
\* the same userId in the state right after the answer finds the row fresh
\* and serves the same data, avatarUrl and isTerminated with source "cache".
C2_MissFetchesOnceThenCached ==
  [][\A r \in Slots :
       /\ ( /\ req[r].kind = "resolve" /\ req[r].pc = "getUserCache"
            /\ req'[r] # req[r]
            /\ req'[r].outcome.store # "failed"
            /\ \A i \in 1..Len(userCache) :
                 userCache[i].userId = req[r].arg => now - userCache[i].timestamp.iso >= 3600000 )
          => (req'[r].pc = "fetchProfile" /\ req'[r].calls.profile = 0)
       /\ (req'[r].kind = "resolve" /\ req'[r].outcome.profile # "none")
          => req'[r].calls.profile = 1
       /\ ( /\ req[r].pc = "addUserCacheWrite" /\ ~req[r].inCatch
            /\ Resolved(req'[r], "api") )
          => /\ req'[r].outcome.profile = "ok"
             /\ IsFresh(getUserCache(userCache', req[r].arg), now')
             /\ JsonDoc(CacheBody(getUserCache(userCache', req[r].arg)))
                  = [req'[r].res.body EXCEPT !.source = Str("cache")]]_vars

\* a resolve that replaced a stale row and answered from the api
C2_Witness ==
  \E r \in Slots :
    /\ Resolved(req[r], "api") /\ req[r].outcome.profile = "ok"
    /\ req[r].writes = 1 /\ now >= 3600000
    /\ Len(userCache) = 1

\* the values the model's upstream replies can recover
RecoveredUsernames == Arr(<<Str("old")>>)
RecoveredStats == Obj([friends |-> Num(3), followers |-> Num(3), following |-> Num(3)])
RecoveredStatsNoFriends == Obj([followers |-> Num(3), following |-> Num(3)])
RecoveredAvatar == Str("img")

\* the defaults of the terminated-account branch
DefaultUsernames == Arr(<<>>)
DefaultStats == Obj([friends |-> Num(0), followers |-> Num(0), following |-> Num(0)])

\* C6: when the profile fetch throws the 400 of a terminated account and no
\* storage call throws, the answer is 200 from the api with isTerminated,
\* data.isBanned and the name "Terminated Account", the row of the userId
\* holds the synthesized record with isTerminated true, and previousUsernames,
\* stats and avatarUrl are the recovered values of the calls that succeeded
\* and the defaults of the calls that failed.
C6_TerminatedAccountSynthesized ==
  [][\A r \in Slots :
       ( /\ req'[r].kind = "resolve" /\ req'[r].outcome.profile = "terminated"
         /\ req[r].pc # "done" /\ req'[r].pc \in {"done", "hung"}
         /\ req'[r].outcome.store # "failed" )
       => /\ Resolved(req'[r], "api")
          /\ req'[r].res.body.isTerminated = Bool(TRUE)
          /\ req'[r].res.body.data.obj.isBanned = Bool(TRUE)
          /\ req'[r].res.body.data.obj.name = Str("Terminated Account")
          /\ req'[r].res.body.previousUsernames =
               (IF req'[r].outcome.history = "ok" THEN RecoveredUsernames ELSE DefaultUsernames)
          /\ req'[r].res.body.stats =
               (IF req'[r].outcome.stats = "ok" THEN RecoveredStats
                ELSE IF req'[r].outcome.stats = "missing" THEN RecoveredStatsNoFriends
                ELSE DefaultStats)
          /\ req'[r].res.body.avatarUrl =
               (IF req'[r].outcome.avatar = "ok" THEN RecoveredAvatar ELSE Null)
          /\ req'[r].res.body.data.obj.previousUsernames = req'[r].res.body.previousUsernames
          /\ req'[r].res.body.data.obj.stats = req'[r].res.body.stats
          /\ \E i \in 1..Len(userCache') :
               /\ userCache'[i].userId = req'[r].arg
               /\ userCache'[i].isTerminated = Bool(TRUE)
               /\ userCache'[i].userData = req'[r].res.body.data
               /\ userCache'[i].avatarUrl = req'[r].res.body.avatarUrl
               /\ \A j \in 1..Len(userCache') : userCache'[j].userId = req'[r].arg => j = i]_vars

\* the scenario of the terminated account whose three recovery calls fail
C6_Witness ==
  \E r \in Slots :
    /\ Resolved(req[r], "api")
    /\ req[r].outcome.profile = "terminated"
    /\ req[r].outcome.history = "failed" /\ req[r].outcome.stats = "failed"
    /\ req[r].outcome.avatar = "failed"
    /\ req[r].res.body.data.obj.stats = DefaultStats
    /\ req[r].res.body.avatarUrl = Null

\* the handler is past its best-effort sub-calls
PastSubCalls(h) ==
  h.kind = "resolve" /\ h.outcome.profile \in {"ok", "terminated"} /\ h.outcome.avatar # "none"

\* C7: the best-effort sub-calls are independent.  Whatever the outcomes of
\* the others, each sub-call of the path taken is issued exactly once, the
\* request ends in 200 with one cache write unless a storage call throws, and
\* a field has its default exactly when its own sub-call did not recover a
\* value.
C7_SubCallsIndependent ==
  \A r \in Slots :
    /\ (req[r].kind = "resolve" /\ req[r].pc = "done" /\ req[r].res.status = 500)
       => (req[r].outcome.profile \in {"failed", "invalid"} \/ req[r].outcome.store = "failed")
    /\ PastSubCalls(req[r]) =>
         /\ req[r].calls.avatar = 1
         /\ req[r].outcome.profile = "terminated" =>
              /\ req[r].calls.history = 1 /\ req[r].calls.friends = 1
              /\ req[r].calls.followers = 1 /\ req[r].calls.followings = 1
         /\ req[r].outcome.profile = "ok" =>
              /\ req[r].calls.history = 0 /\ req[r].calls.friends = 0
              /\ req[r].calls.followers = 0 /\ req[r].calls.followings = 0
         /\ (req[r].pc \in {"done", "hung"} /\ req[r].outcome.store # "failed") =>
              /\ Resolved(req[r], "api")
              /\ req[r].writes = 1
              /\ (req[r].res.body.avatarUrl = Null) <=> (req[r].outcome.avatar # "ok")
              /\ req[r].outcome.profile = "terminated" =>
                   /\ (req[r].res.body.previousUsernames = DefaultUsernames)
                        <=> (req[r].outcome.history # "ok")
                   /\ (req[r].res.body.stats = DefaultStats)
                        <=> (req[r].outcome.stats = "failed")

\* a recovery in which the avatar and history calls failed and the counts
\* were recovered
C7_Witness ==
  \E r \in Slots :
    /\ Resolved(req[r], "api")
    /\ req[r].outcome.profile = "terminated"
    /\ req[r].outcome.history = "failed" /\ req[r].outcome.stats = "ok"
    /\ req[r].outcome.avatar = "failed"
    /\ req[r].res.body.stats = RecoveredStats

\* C8: when the profile fetch throws anything but the 400 of a terminated
\* account, or its body fails the validation, resolve answers 500 with
\* {error, details} in that step, issues no further call and never writes
\* the cache: the step leaves user_cache as it was.
C8_FatalFetchNoCacheWrite ==
  [][\A r \in Slots :
       /\ ( /\ req[r].kind = "resolve" /\ req[r].pc = "fetchProfile"
            /\ req'[r] # req[r]
            /\ req'[r].outcome.profile \in {"failed", "invalid"} )
          => /\ req'[r].pc = "done"
             /\ req'[r].res.status = 500
             /\ DOMAIN req'[r].res.body = {"error", "details"}
             /\ req'[r].writes = 0
             /\ req'[r].calls = [e \in Endpoints |-> IF e = "profile" THEN 1 ELSE 0]
             /\ userCache' = userCache
       /\ userCache' # userCache
          => \E q \in Slots :
               /\ req[q].pc = "addUserCacheWrite"
               /\ req'[q].writes = req[q].writes + 1
               /\ req[q].outcome.profile \in {"ok", "terminated"}]_vars

\* a resolve of a userId whose row is stale answered 500 after a failed fetch
C8_Witness ==
  \E r \in Slots :
    /\ req[r].kind = "resolve" /\ req[r].pc = "done" /\ req[r].res.status = 500
    /\ req[r].outcome.profile \in {"failed", "invalid"}
    /\ \E i \in 1..Len(userCache) :
         userCache[i].userId = req[r].arg /\ now - userCache[i].timestamp.iso >= 3600000

(***************************************************************************)
(* Properties of POST /api/users/by-username.                              *)
(***************************************************************************)
\* handler h is a username resolution that ended and whose storage calls
\* did not throw
Looked(h) ==
  /\ h.kind = "byUsername" /\ h.pc = "done"
  /\ h.outcome.store # "failed"

\* C3: every resolution of a non-empty username appends exactly one history
\* entry, whatever the outcome of the upstream lookup.
C3_ExactlyOneEntryPerCall ==
  \A r \in Slots :
    ( /\ Looked(req[r]) /\ req[r].res.status # 400
      /\ req[r].outcome.lookup \in {"ok", "empty", "failed"} )
    => req[r].appended = 1

\* C4: the entry of a resolution has success false when the lookup threw or
\* matched nothing and true otherwise: no entry with success true is left
\* for a resolution that ended in 404 or 500.
C4_EntryTaggedByOutcome ==
  \A r \in Slots :
    (Looked(req[r]) /\ req[r].res.status # 400) =>
      \A i \in 1..Len(searchHistory) :
        searchHistory[i].query = req[r].arg =>
          searchHistory[i].success = Bool(req[r].res.status = 200)

\* C5: a resolution whose username is missing or empty ends in its first
\* step with 400, without a history entry, an upstream call or a change of
\* a table.
C5_EmptyUsernameRejected ==
  [][\A r \in Slots :
       ( /\ req'[r] # req[r]
         /\ req'[r].kind = "byUsername"
         /\ req'[r].arg \in {Undefined, Str("")} )
       => /\ req'[r].pc = "done"
          /\ req'[r].res = [status |-> 400, body |-> [error |-> Str("Username is required")]]
          /\ req'[r].appended = 0
          /\ \A e \in Endpoints : req'[r].calls[e] = 0
          /\ searchHistory' = searchHistory
          /\ userCache' = userCache]_vars

\* a resolution of the empty username was rejected
C5_Witness ==
  \E r \in Slots :
    /\ req[r].kind = "byUsername" /\ req[r].pc = "done"
    /\ req[r].arg = Str("") /\ req[r].res.status = 400
    /\ searchHistory = <<>>

(***************************************************************************)
(* Properties of GET /api/users/:userId/stats.                             *)
(***************************************************************************)
\* C9: getStats always answers 200; the body holds the three counts when
\* the three fetches succeeded with a count, and "N/A" three times
\* otherwise; no body mixes a count with "N/A".
C9_StatsFailTogether ==
  \A r \in Slots :
    req[r].kind = "stats" =>
      /\ req[r].pc \in {"fetchCounts", "done"}
      /\ req[r].pc = "done" =>
           /\ req[r].res.status = 200
           /\ req[r].calls.friends = 1 /\ req[r].calls.followers = 1 /\ req[r].calls.followings = 1
           /\ req[r].res.body =
                (IF req[r].outcome.stats = "ok"
                   THEN [friends |-> Num(3), followers |-> Num(3), following |-> Num(3)]
                   ELSE [friends |-> Str("N/A"), followers |-> Str("N/A"), following |-> Str("N/A")])

\* a getStats of which one fetch threw answered with the three sentinels
C9_Witness ==
  \E r \in Slots :
    /\ req[r].kind = "stats" /\ req[r].pc = "done"
    /\ req[r].outcome.stats = "failed"
    /\ req[r].res.body.friends = Str("N/A")

(***************************************************************************)
(* Properties of the storage.                                              *)
(***************************************************************************)
UserCacheColumns == {"userId", "userData", "avatarUrl", "timestamp", "isTerminated"}

\* row is old with the columns given in cache replaced and the others kept
Merged(row, old, cache) ==
  /\ row.id = old.id
  /\ \A f \in UserCacheColumns :
       row[f] = (IF f \in DOMAIN cache /\ cache[f] # Undefined THEN cache[f] ELSE old[f])

\* row is the record inserted for cache
Inserted(row, cache) ==
  /\ row.userId = cache.userId
  /\ row.userData = cache.userData
  /\ row.timestamp = cache.timestamp
  /\ row.avatarUrl = (IF "avatarUrl" \in DOMAIN cache THEN cache.avatarUrl ELSE Null)
  /\ row.isTerminated = (IF "isTerminated" \in DOMAIN cache THEN cache.isTerminated ELSE Bool(FALSE))

\* C10: addUserCache (and the updateUserCache it delegates to) on a userId
\* that has a row replaces the columns present in the argument and keeps the
\* others, the other rows stay as they are; addUserCache on a userId without
\* a row appends the record; both return the row as stored afterwards.
C10_UpsertMergesFields ==
  [][\A userId \in UserIds :
       ( /\ started' = started + 1
         /\ req'[Caller].kind \in {"addUserCache", "updateUserCache"}
         /\ "returned" \in DOMAIN req'[Caller].res
         /\ userId = (IF req'[Caller].kind = "addUserCache"
                        THEN req'[Caller].arg.cache.userId ELSE req'[Caller].arg.userId) )
       => IF \E i \in 1..Len(userCache) : userCache[i].userId = userId
            THEN /\ Len(userCache') = Len(userCache)
                 /\ \A i \in 1..Len(userCache) :
                      IF userCache[i].userId = userId
                        THEN /\ Merged(userCache'[i], userCache[i], req'[Caller].arg.cache)
                             /\ req'[Caller].res.returned = userCache'[i]
                        ELSE userCache'[i] = userCache[i]
            ELSE req'[Caller].kind = "addUserCache" =>
                   /\ Len(userCache') = Len(userCache) + 1
                   /\ SubSeq(userCache', 1, Len(userCache)) = userCache
                   /\ Inserted(userCache'[Len(userCache')], req'[Caller].arg.cache)
                   /\ req'[Caller].res.returned = userCache'[Len(userCache')]]_vars

\* an upsert of {userId, avatarUrl} alone kept the stored userData
C10_Witness ==
  /\ req[Caller].kind = "updateUserCache"
  /\ "returned" \in DOMAIN req[Caller].res
  /\ DOMAIN req[Caller].arg.cache = {"userId", "avatarUrl"}
  /\ \E i \in 1..Len(userCache) :
       /\ userCache[i] = req[Caller].res.returned
       /\ userCache[i].avatarUrl = Str("new")
       /\ userCache[i].userData.obj.name \in {Str("alice"), Str("carol"), Str("dave")}

(***************************************************************************)
(* Properties of resolve requests that overlap.                            *)
(***************************************************************************)
\* C11: whatever the interleaving of the resolve requests, user_cache never
\* holds two rows of one userId, and no step removes a row: every row stays
\* at its place with its id and its userId.
C11_OneRecordPerUserId ==
  /\ [](\A i, j \in 1..Len(userCache) : userCache[i].userId = userCache[j].userId => i = j)
  /\ [][\A i \in 1..Len(userCache) :
          /\ i <= Len(userCache')
          /\ userCache'[i].id = userCache[i].id
          /\ userCache'[i].userId = userCache[i].userId]_vars

\* two handlers selected no row of the userId, one inserted it and the insert
\* of the other was refused
C11_Witness ==
  \E r, q \in Slots :
    /\ r # q
    /\ Resolved(req[r], "api") /\ req[r].writes = 1
    /\ req[q].kind = "resolve" /\ req[q].outcome.store = "conflict"
    /\ req[q].arg = req[r].arg
    /\ Len(SelectUserCache(userCache, req[r].arg)) = 1

\* C12: when two resolve requests of one userId overlap, the profile fetch
\* of each succeeds and validates and no database call fails, both end with
\* 200 from the api and user_cache holds one row of the userId, with the
\* userData that one of the two answered.
C12_ConcurrentLastWriterWins ==
  \A r, q \in Slots :
    ( /\ r # q
      /\ req[r].kind = "resolve" /\ req[q].kind = "resolve"
      /\ req[r].arg = req[q].arg
      /\ req[r].outcome.profile = "ok" /\ req[q].outcome.profile = "ok"
      /\ ~Running(req[r]) /\ ~Running(req[q])
      /\ req[r].outcome.store # "failed" /\ req[q].outcome.store # "failed" )
    => /\ Resolved(req[r], "api") /\ Resolved(req[q], "api")
       /\ Len(SelectUserCache(userCache, req[r].arg)) = 1
       /\ getUserCache(userCache, req[r].arg).userData
            \in {req[r].res.body.data, req[q].res.body.data}

(***************************************************************************)
(* Properties of the search history.                                       *)
(***************************************************************************)
\* the limit a call of getRecentSearches applies
AppliedLimit(limit) == IF limit = Undefined THEN 10 ELSE limit.num

\* C13: getRecentSearches(limit) returns min(limit, size of the log) entries
\* of the log, each once; no entry left out has a greater timestamp than an
\* entry returned; the entries come by decreasing timestamp, wherever they
\* stand in the log; without a limit at most 10 entries are returned.
C13_RecentSearchesLimitedAndOrdered ==
  [][( /\ started' = started + 1
       /\ req'[Caller].kind = "getRecentSearches" )
     => LET rows == req'[Caller].res.returned.arr
            n == AppliedLimit(req'[Caller].arg.limit)
        IN /\ Len(rows) <= n
           /\ Len(rows) = (IF n < Len(searchHistory) THEN n ELSE Len(searchHistory))
           /\ \A i \in 1..Len(rows) : \E k \in 1..Len(searchHistory) : rows[i] = searchHistory[k]
           /\ \A i, j \in 1..Len(rows) : rows[i].id = rows[j].id => i = j
           /\ \A i, j \in 1..Len(rows) :
                i < j => rows[i].timestamp.iso >= rows[j].timestamp.iso
           /\ \A i \in 1..Len(rows) : \A k \in 1..Len(searchHistory) :
                (\A j \in 1..Len(rows) : rows[j].id # searchHistory[k].id)
                  => rows[i].timestamp.iso >= searchHistory[k].timestamp.iso]_vars

\* a call without a limit on a log of more than ten entries returned the ten
\* most recent, the first of which was not the first appended
C13_Witness ==
  /\ req[Caller].kind = "getRecentSearches"
  /\ req[Caller].arg.limit = Undefined
  /\ Len(searchHistory) > 10
  /\ Len(req[Caller].res.returned.arr) = 10
  /\ req[Caller].res.returned.arr[1].id # 1

\* C14: the log is append-only.  Every step of every route keeps every
\* entry of search_history at its place with its id, query, type, timestamp
\* and success; the log only grows.
C14_SearchHistoryAppendOnly ==
  [][/\ Len(searchHistory') >= Len(searchHistory)
     /\ \A i \in 1..Len(searchHistory) :
          /\ searchHistory'[i].id = searchHistory[i].id
          /\ searchHistory'[i].query = searchHistory[i].query
          /\ searchHistory'[i].type = searchHistory[i].type
          /\ searchHistory'[i].timestamp = searchHistory[i].timestamp
          /\ searchHistory'[i].success = searchHistory[i].success]_vars

\* a second entry was appended behind the first, which still says success
C14_Witness ==
  /\ Len(searchHistory) = 2
  /\ searchHistory[1].success = Bool(TRUE)
  /\ searchHistory[2].success = Bool(FALSE)
  /\ \E r \in Slots : req[r].kind = "byUsername" /\ req[r].appended = 2

(***************************************************************************)
(* Properties of the responses.                                            *)
(***************************************************************************)
\* C15: every request that a handler is running is eventually answered:
\* the handler reaches its response, whatever the upstream and the database
\* calls return or throw.
C15_EveryRequestAnswered ==
  \A r \in Slots : Running(req[r]) ~> (req[r].pc = "done" /\ req[r].res.status # 0)


\* handler h is a resolve that is about to upsert or has upserted its record
Upserting(h) ==
  /\ h.kind = "resolve"
  /\ (h.pc \in {"addUserCache", "addUserCacheWrite"} \/ h.writes > 0)

\* C16 as stated: until the cache read of a resolve has returned, the request
\* has issued no upstream call and no upsert, and a resolve upserts only
\* after the profile of that same request was fetched and validated.
C16_UpsertOnlyAfterValidation ==
  \A r \in Slots :
    /\ (req[r].kind = "resolve" /\ req[r].pc = "getUserCache")
         => (\A e \in Endpoints : req[r].calls[e] = 0) /\ req[r].writes = 0
    /\ Upserting(req[r]) => req[r].outcome.profile = "ok"

\* C16: until the cache read of a resolve has returned, the request has
\* issued no upstream call and no upsert; a resolve upserts only after its
\* one profile fetch has ended, either with a validated profile (the upsert
\* of routes.ts:66) or with the 400 of a terminated account (the upsert of
\* the synthesized record at routes.ts:141, which no validation precedes);
\* and the user_cache table changes only in the write step of such a request.
C16_UpsertOnlyAfterProfileOutcome ==
  /\ [](\A r \in Slots :
         /\ (req[r].kind = "resolve" /\ req[r].pc = "getUserCache")
              => (\A e \in Endpoints : req[r].calls[e] = 0) /\ req[r].writes = 0
         /\ Upserting(req[r])
              => /\ req[r].calls.profile = 1
                 /\ req[r].outcome.profile \in {"ok", "terminated"}
                 /\ req[r].inCatch <=> req[r].outcome.profile = "terminated")
  /\ [][userCache' # userCache
         => \E r \in Slots :
              /\ req[r].kind = "resolve" /\ req[r].pc = "addUserCacheWrite"
              /\ req[r].outcome.profile \in {"ok", "terminated"}
              /\ req'[r].writes = req[r].writes + 1]_vars

\* a resolve that upserted the synthesized record of a terminated account,
\* with no validated profile in the request
C16_Witness ==
  \E r \in Slots :
    /\ Resolved(req[r], "api") /\ req[r].writes = 1
    /\ req[r].outcome.profile = "terminated" /\ req[r].calls.profile = 1
    /\ Len(userCache) = 1


\* C17: within one request each upstream endpoint is called at most once,
\* whatever the calls answer: a call that failed is not issued again, and a
\* resolve that fetched the avatar on the normal path never enters the
\* terminated-account path, where the avatar is fetched as well.
C17_EachEndpointAtMostOnce ==
  \A r \in Slots :
    /\ \A e \in Endpoints : req[r].calls[e] <= 1
    /\ (req[r].kind = "resolve" /\ req[r].inCatch /\ req[r].calls.avatar = 1)
         => req[r].pc \in {"addUserCache", "addUserCacheWrite", "done", "hung"}
    /\ (req[r].kind = "resolve" /\ req[r].inCatch)
         => req[r].outcome.profile = "terminated"

\* a resolve whose upsert failed after the avatar fetch of the normal path:
\* it answered 500 having fetched the avatar once
C17_Witness ==
  \E r \in Slots :
    /\ req[r].kind = "resolve" /\ req[r].pc = "done" /\ req[r].res.status = 500
    /\ req[r].outcome.profile = "ok" /\ req[r].outcome.avatar = "failed"
    /\ req[r].outcome.store = "failed"
    /\ req[r].calls.avatar = 1 /\ req[r].calls.profile = 1


\* C18: every row of user_cache has a boolean isTerminated equal to the
\* isBanned of its userData, and every 200 answer of resolve, from the api or
\* from the cache, reports a boolean isTerminated equal to data.isBanned.
C18_TerminatedFlagIsBanned ==
  /\ \A i \in 1..Len(userCache) :
       /\ IsBoolean(userCache[i].isTerminated)
       /\ userCache[i].isTerminated = Get(userCache[i].userData.obj, "isBanned")
  /\ \A r \in Slots :
       (req[r].kind = "resolve" /\ req[r].pc = "done" /\ req[r].res.status = 200)
         => /\ IsBoolean(req[r].res.body.isTerminated)
            /\ req[r].res.body.isTerminated = Get(req[r].res.body.data.obj, "isBanned")

\* a resolve that validated the profile of a banned account and wrote its
\* row with the flag set
C18_Witness ==
  \E r \in Slots :
    /\ Resolved(req[r], "api") /\ req[r].outcome.profile = "ok" /\ req[r].writes = 1
    /\ req[r].res.body.isTerminated = Bool(TRUE)
    /\ \E i \in 1..Len(userCache) :
         /\ userCache[i].userId = req[r].arg
         /\ userCache[i].isTerminated = Bool(TRUE)
         /\ userCache[i].userData.obj.isBanned = Bool(TRUE)


\* C19: the userData of every row of user_cache, and the data of every 200
\* answer of resolve, passes robloxUserSchema (id a number, name a string,
\* stats an object of three numbers, previousUsernames a list of strings),
\* whatever userId the caller passed and whatever the recovery calls answered.
C19_UserDataIsNormalizedProfile ==
  /\ \A i \in 1..Len(userCache) :
       IsObject(userCache[i].userData) /\ robloxUserSchemaOk(userCache[i].userData.obj)
  /\ \A r \in Slots :
       (req[r].kind = "resolve" /\ req[r].pc = "done" /\ req[r].res.status = 200)
         => IsObject(req[r].res.body.data) /\ robloxUserSchemaOk(req[r].res.body.data.obj)


\* C20: a step of a resolve leaves search_history as it is, a step of the
\* username resolver leaves user_cache as it is, and a step of getStats, of
\* the status passthrough or of the search-history read leaves both as they
\* are; a resolve never counts an appended entry and the other handlers never
\* count a cache write.
C20_OperationsLeaveOtherEntityUnchanged ==
  /\ [][\A r \in Slots :
          req'[r] # req[r]
            => /\ req'[r].kind = "resolve" => searchHistory' = searchHistory
               /\ req'[r].kind = "byUsername" => userCache' = userCache
               /\ req'[r].kind \in {"stats", "status", "searchHistory"}
                    => userCache' = userCache /\ searchHistory' = searchHistory]_vars
  /\ [](\A r \in Slots :
          /\ req[r].kind = "resolve" => req[r].appended = 0
          /\ req[r].kind # "resolve" => req[r].writes = 0 /\ ~req[r].existing
          /\ req[r].kind \in {"stats", "status", "searchHistory"} => req[r].appended = 0)

\* a username resolver that found the user and logged the search while
\* user_cache held a row
C20_Witness ==
  \E r \in Slots :
    /\ req[r].kind = "byUsername" /\ req[r].pc = "done" /\ req[r].res.status = 200
    /\ req[r].appended = 1 /\ Len(searchHistory) = 1
    /\ userCache \in InitialCaches /\ Len(userCache) = 1

====
